---- MODULE Spec2Model ----
(***************************************************************************)
(* Model of the OpenAuth front-door worker (torarnehave1/openauth-template)*)
(* in its two source variants:                                             *)
(*   "index"    = src/src/index.ts      (landing "/" is an HTTP redirect)  *)
(*   "part_000" = src/unnamed/part_000  (landing pages are interstitials)  *)
(*                                                                         *)
(* A string that the URL machinery reads or writes is a sequence of code   *)
(* points (natural numbers); Str(<<"a", "/">>) writes one down.  A request *)
(* is the part of request.url after the origin: path, "?query", "#frag".   *)
(* Response bodies and email addresses are never taken apart and are kept  *)
(* as plain strings.                                                       *)
(***************************************************************************)
EXTENDS Naturals, Sequences, FiniteSets

\* ------------------------------------------------------------------ bounds
\* Requests the worker handles in one behaviour of Spec.
MaxRequests == 2
\* Query parameters an inbound request carries.
MaxParams == 2

\* ---------------------------------------------------------------- strings
\* The printable ASCII characters in code order, U+0020 to U+007E (the
\* grave accent, which cannot stand in a string here, by name).
Ascii ==
  << " ", "!", "\"", "#", "$", "%", "&", "'", "(", ")", "*", "+", ",", "-",
     ".", "/", "0", "1", "2", "3", "4", "5", "6", "7", "8", "9", ":", ";",
     "<", "=", ">", "?", "@", "A", "B", "C", "D", "E", "F", "G", "H", "I",
     "J", "K", "L", "M", "N", "O", "P", "Q", "R", "S", "T", "U", "V", "W",
     "X", "Y", "Z", "[", "\\", "]", "^", "_", "grave accent", "a", "b", "c", "d", "e",
     "f", "g", "h", "i", "j", "k", "l", "m", "n", "o", "p", "q", "r", "s",
     "t", "u", "v", "w", "x", "y", "z", "{", "|", "}", "~" >>

Code(c) == 31 + (CHOOSE i \in 1..Len(Ascii) : Ascii[i] = c)
Str(chars) == [i \in 1..Len(chars) |-> Code(chars[i])]

\* The characters the URL machinery looks for.
ChPercent == Code("%")
ChPlus == Code("+")
ChSpace == Code(" ")
ChEquals == Code("=")
ChAmp == Code("&")
ChHash == Code("#")
ChQuestion == Code("?")
ChSlash == Code("/")
ChBackslash == Code("\\")
ChDot == Code(".")
Ch0 == Code("0")
Ch9 == Code("9")
Ch2 == Code("2")
ChUpperA == Code("A")
ChUpperF == Code("F")
ChUpperZ == Code("Z")
ChUpperE == Code("E")
ChLowerA == Code("a")
ChLowerF == Code("f")
ChLowerZ == Code("z")
ChLowerE == Code("e")
ChGrave == Code("grave accent")

\* The members of a sequence of sequences, joined in order (by halves).
RECURSIVE Concat(_)
Concat(seqs) ==
  IF seqs = <<>> THEN <<>>
  ELSE IF Len(seqs) = 1 THEN seqs[1]
  ELSE LET half == Len(seqs) \div 2
       IN  Concat(SubSeq(seqs, 1, half)) \o Concat(SubSeq(seqs, half + 1, Len(seqs)))

\* Index of the first element of s, from i on, that is in set; 0 if none.
IndexOf(s, set, i) ==
  LET hits == {k \in i..Len(s) : s[k] \in set}
  IN  IF hits = {} THEN 0 ELSE CHOOSE k \in hits : \A j \in hits : k <= j

\* ------------------------------------------------------------------ UTF-8
\* The UTF-8 bytes of one code point.
UTF8Encode(c) ==
  IF c < 128 THEN <<c>>
  ELSE IF c < 2048 THEN <<192 + (c \div 64), 128 + (c % 64)>>
  ELSE IF c < 65536
  THEN <<224 + (c \div 4096), 128 + ((c \div 64) % 64), 128 + (c % 64)>>
  ELSE <<240 + (c \div 262144), 128 + ((c \div 4096) % 64),
         128 + ((c \div 64) % 64), 128 + (c % 64)>>

UTF8Bytes(s) == Concat([i \in 1..Len(s) |-> UTF8Encode(s[i])])

\* The UTF-8 decoder with replacement (U+FFFD for every ill-formed
\* sequence) over the bytes from i up to stop: need continuation bytes are
\* still due for code point cp, the next one within lower..upper.
RECURSIVE UTF8DecodeRun(_, _, _, _, _, _, _)
UTF8DecodeRun(bytes, i, stop, need, cp, lower, upper) ==
  IF i > stop THEN (IF need > 0 THEN <<65533>> ELSE <<>>)
  ELSE LET b == bytes[i]
       IN  IF need = 0
           THEN IF b < 128
                THEN <<b>> \o UTF8DecodeRun(bytes, i + 1, stop, 0, 0, 128, 191)
                ELSE IF b \in 194..223
                THEN UTF8DecodeRun(bytes, i + 1, stop, 1, b % 32, 128, 191)
                ELSE IF b \in 224..239
                THEN UTF8DecodeRun(bytes, i + 1, stop, 2, b % 16,
                                   IF b = 224 THEN 160 ELSE 128,
                                   IF b = 237 THEN 159 ELSE 191)
                ELSE IF b \in 240..244
                THEN UTF8DecodeRun(bytes, i + 1, stop, 3, b % 8,
                                   IF b = 240 THEN 144 ELSE 128,
                                   IF b = 244 THEN 143 ELSE 191)
                ELSE <<65533>> \o UTF8DecodeRun(bytes, i + 1, stop, 0, 0, 128, 191)
           ELSE IF b \notin lower..upper
                THEN <<65533>> \o UTF8DecodeRun(bytes, i, stop, 0, 0, 128, 191)
                ELSE IF need = 1
                THEN <<cp * 64 + (b % 64)>>
                       \o UTF8DecodeRun(bytes, i + 1, stop, 0, 0, 128, 191)
                ELSE UTF8DecodeRun(bytes, i + 1, stop, need - 1,
                                   cp * 64 + (b % 64), 128, 191)

\* The decoder over a whole byte sequence. An ASCII byte always leaves the
\* decoder with nothing due, so each maximal run of bytes above 0x7F is
\* decoded on its own, from its first byte.
UTF8Decode(bytes) ==
  Concat([i \in 1..Len(bytes) |->
            IF bytes[i] < 128 THEN <<bytes[i]>>
            ELSE IF i > 1 /\ bytes[i - 1] >= 128 THEN <<>>
            ELSE LET after == {k \in i..Len(bytes) : bytes[k] < 128}
                     stop == IF after = {} THEN Len(bytes)
                              ELSE (CHOOSE k \in after : \A j \in after : k <= j) - 1
                 IN  UTF8DecodeRun(bytes, i, stop, 0, 0, 128, 191)])

\* -------------------------------------------------------- percent-encoding
HexUpper ==
  Str(<<"0", "1", "2", "3", "4", "5", "6", "7", "8", "9",
        "A", "B", "C", "D", "E", "F">>)

\* %XX for byte b, upper-case hex.
PercentByte(b) == <<ChPercent, HexUpper[(b \div 16) + 1], HexUpper[(b % 16) + 1]>>

\* The value of a hex digit, either case; 16 for any other character.
HexValue(c) ==
  IF c \in Ch0..Ch9 THEN c - Ch0
  ELSE IF c \in ChUpperA..ChUpperF THEN c - ChUpperA + 10
  ELSE IF c \in ChLowerA..ChLowerF THEN c - ChLowerA + 10
  ELSE 16

\* The bytes the application/x-www-form-urlencoded serializer leaves alone:
\* ASCII letters and digits and * - . _
FormSafe ==
  (Ch0..Ch9) \cup (ChUpperA..ChUpperZ) \cup (ChLowerA..ChLowerZ)
    \cup {Code("*"), Code("-"), ChDot, Code("_")}

\* The urlencoded serializer on one byte: a space is "+", a safe byte is
\* itself, any other byte is %XX.
PercentEncode(b) ==
  IF b = ChSpace THEN <<ChPlus>>
  ELSE IF b \in FormSafe THEN <<b>>
  ELSE PercentByte(b)

\* The urlencoded serializer on a name or a value.
EncodeStr(s) ==
  LET bytes == UTF8Bytes(s)
  IN  Concat([i \in 1..Len(bytes) |-> PercentEncode(bytes[i])])

\* Position i of s starts an escape: "%" and two hex digits, either case.
IsEscape(s, i) ==
  /\ i >= 1
  /\ i + 2 <= Len(s)
  /\ s[i] = ChPercent
  /\ HexValue(s[i + 1]) < 16
  /\ HexValue(s[i + 2]) < 16

\* Percent-decoding of a byte sequence: an escape is the byte it names;
\* everything else, a "%" that starts no escape too, is itself. (A hex
\* digit is not "%", so no two escapes overlap.)
PercentDecode(s) ==
  Concat([i \in 1..Len(s) |->
            IF IsEscape(s, i)
            THEN <<16 * HexValue(s[i + 1]) + HexValue(s[i + 2])>>
            ELSE IF IsEscape(s, i - 1) \/ IsEscape(s, i - 2) THEN <<>>
            ELSE <<s[i]>>])

\* The urlencoded parser on a name or a value: "+" becomes a space, the
\* bytes are percent-decoded, the result is read as UTF-8.
DecodeStr(s) ==
  LET bytes == UTF8Bytes(s)
      plus  == [i \in 1..Len(bytes) |->
                  IF bytes[i] = ChPlus THEN ChSpace ELSE bytes[i]]
  IN  UTF8Decode(PercentDecode(plus))

\* The URL parser's percent-encoding of a component: control characters,
\* non-ASCII and the members of the component's set are UTF-8 percent-
\* encoded, everything else ("%" included) is copied.
UrlEncode(s, set) ==
  Concat([i \in 1..Len(s) |->
            IF s[i] < 32 \/ s[i] > 126 \/ s[i] \in set
            THEN LET bytes == UTF8Encode(s[i])
                 IN  Concat([k \in 1..Len(bytes) |-> PercentByte(bytes[k])])
            ELSE <<s[i]>>])

FragmentSet == {Code(" "), Code("\""), Code("<"), Code(">"), ChGrave}
SpecialQuerySet == {Code(" "), Code("\""), Code("#"), Code("<"), Code(">"), Code("'")}
\* The path set of the URL implementation the handler runs on: "^" and "|"
\* are left as written.
PathSet ==
  {Code(" "), Code("\""), Code("#"), Code("<"), Code(">"),
   Code("?"), ChGrave, Code("{"), Code("}")}

\* ----------------------------------------------------- URLSearchParams
\* The urlencoded serializer on one pair: name=value.
SerializePair(pair) == EncodeStr(pair[1]) \o <<ChEquals>> \o EncodeStr(pair[2])

\* URLSearchParams.toString(): the pairs, joined by "&".
RECURSIVE SerializeParams(_)
SerializeParams(list) ==
  IF list = <<>> THEN <<>>
  ELSE IF Len(list) = 1 THEN SerializePair(list[1])
  ELSE SerializePair(list[1]) \o <<ChAmp>> \o SerializeParams(Tail(list))

\* A "name=value" piece of a query, split at eq, the position of its first
\* "=" (0 if it has none), name and value decoded.
SplitPair(piece, eq) ==
  IF eq = 0 THEN <<DecodeStr(piece), <<>>>>
  ELSE <<DecodeStr(SubSeq(piece, 1, eq - 1)),
         DecodeStr(SubSeq(piece, eq + 1, Len(piece)))>>

ParsePair(piece) == SplitPair(piece, IndexOf(piece, {ChEquals}, 1))

\* The pair of one piece; an empty piece gives none.
ParsePiece(piece) == IF piece = <<>> THEN <<>> ELSE <<ParsePair(piece)>>

\* The urlencoded parser: split on "&", skip empty pieces, parse each.
RECURSIVE ParseQuery(_)
ParsePieces(search, amp) ==
  IF amp = 0 THEN ParsePiece(search)
  ELSE ParsePiece(SubSeq(search, 1, amp - 1))
         \o ParseQuery(SubSeq(search, amp + 1, Len(search)))

ParseQuery(search) ==
  IF search = <<>> THEN <<>>
  ELSE ParsePieces(search, IndexOf(search, {ChAmp}, 1))

\* URLSearchParams.get(name): the value of the first pair named name, as a
\* one-element sequence; <<>> stands for null.
RECURSIVE SearchParamsGet(_, _)
SearchParamsGet(list, name) ==
  IF list = <<>> THEN <<>>
  ELSE IF list[1][1] = name THEN <<list[1][2]>>
  ELSE SearchParamsGet(Tail(list), name)

\* The pairs of list whose name is not name, in order.
RECURSIVE RemoveName(_, _)
RemoveName(list, name) ==
  IF list = <<>> THEN <<>>
  ELSE IF list[1][1] = name THEN RemoveName(Tail(list), name)
  ELSE <<list[1]>> \o RemoveName(Tail(list), name)

\* A mutation of set(): append, as URLSearchParams.append would.
SearchParamsAppend(list, name, value) == Append(list, <<name, value>>)

\* URLSearchParams.set(name, value): the first pair named name takes the
\* value and every later pair of that name is removed; appended if absent.
RECURSIVE SearchParamsSet(_, _, _)
SearchParamsSet(list, name, value) ==
  IF list = <<>> THEN <<<<name, value>>>>
  ELSE IF list[1][1] = name
       THEN <<<<name, value>>>> \o RemoveName(Tail(list), name)
       ELSE <<list[1]>> \o SearchParamsSet(Tail(list), name, value)

\* `x ?? ""` applied to the result of get().
OrEmpty(got) == IF got = <<>> THEN <<>> ELSE got[1]

\* -------------------------------------------------------------- URL parser
\* The input with its trailing C0 controls and spaces stripped and every
\* tab and newline removed.
RECURSIVE StripTrailing(_)
StripTrailing(s) ==
  IF s # <<>> /\ s[Len(s)] <= 32 THEN StripTrailing(SubSeq(s, 1, Len(s) - 1))
  ELSE s

TabOrNewline == {9, 10, 13}
NotTabOrNewline(c) == c \notin TabOrNewline
CleanInput(s) == SelectSeq(StripTrailing(s), NotTabOrNewline)

Slashes == {ChSlash, ChBackslash}

\* The segments of a raw path, split at "/" and "\".
RECURSIVE SplitPath(_)
SplitPath(raw) ==
  LET cut == IndexOf(raw, Slashes, 1)
  IN  IF cut = 0 THEN <<raw>>
      ELSE <<SubSeq(raw, 1, cut - 1)>> \o SplitPath(SubSeq(raw, cut + 1, Len(raw)))

\* The single-dot and double-dot segments: "." may be written "%2e", in
\* either case.
SingleDot ==
  {<<ChDot>>, <<ChPercent, Ch2, ChLowerE>>, <<ChPercent, Ch2, ChUpperE>>}
DoubleDot == {a \o b : a \in SingleDot, b \in SingleDot}

\* The path state of the URL parser over the segments from k on: a
\* double-dot segment drops the last segment kept, a single-dot segment is
\* skipped (either leaves an empty segment when it ends the path), any
\* other segment is kept percent-encoded.
RECURSIVE PathState(_, _, _)
PathState(segs, k, path) ==
  IF k > Len(segs) THEN path
  ELSE LET buffer == UrlEncode(segs[k], PathSet)
           isLast == k = Len(segs)
       IN  IF buffer \in DoubleDot
           THEN LET shorter == IF path = <<>> THEN <<>>
                               ELSE SubSeq(path, 1, Len(path) - 1)
                IN  PathState(segs, k + 1,
                              IF isLast THEN Append(shorter, <<>>) ELSE shorter)
           ELSE IF buffer \in SingleDot
           THEN PathState(segs, k + 1, IF isLast THEN Append(path, <<>>) ELSE path)
           ELSE PathState(segs, k + 1, Append(path, buffer))

\* url.pathname: "/" before every segment.
SerializePath(path) ==
  Concat([k \in 1..Len(path) |-> <<ChSlash>> \o path[k]])

\* The pathname of a raw path: its leading slash dropped, its segments run
\* through the path state, the result serialized.
PathOf(raw) ==
  SerializePath(
    PathState(SplitPath(IF raw # <<>> /\ raw[1] \in Slashes THEN Tail(raw) ELSE raw),
              1, <<>>))

\* The URL whose part before "#" is front, its first "?" at askAt (0 if
\* none), and whose fragment is given (<<>> when there is none, else a
\* one-element sequence).
BuildURL(front, askAt, fragment) ==
  [pathname |-> PathOf(IF askAt = 0 THEN front ELSE SubSeq(front, 1, askAt - 1)),
   searchParams |->
     IF askAt = 0 THEN <<>>
     ELSE ParseQuery(UrlEncode(SubSeq(front, askAt + 1, Len(front)),
                               SpecialQuerySet)),
   hash |-> IF fragment = <<>> THEN <<>>
            ELSE <<UrlEncode(fragment[1], FragmentSet)>>]

SplitAtQuery(front, fragment) ==
  BuildURL(front, IndexOf(front, {ChQuestion}, 1), fragment)

\* The input is cut at hashAt, the position of its first "#" (0 if none).
SplitAtHash(input, hashAt) ==
  IF hashAt = 0 THEN SplitAtQuery(input, <<>>)
  ELSE SplitAtQuery(SubSeq(input, 1, hashAt - 1),
                    <<SubSeq(input, hashAt + 1, Len(input))>>)

ParseURL(input) == SplitAtHash(input, IndexOf(input, {ChHash}, 1))

\* new URL(request.url), as far as the handler reads it: the normalised
\* pathname, the searchParams list and the fragment.
NewURL(request) == ParseURL(CleanInput(request.url))

\* url.toString() without the origin, for a URL whose query is not empty.
Href(pathname, searchParams, hash) ==
  pathname \o <<ChQuestion>> \o SerializeParams(searchParams)
    \o (IF hash = <<>> THEN <<>> ELSE <<ChHash>> \o hash[1])

\* ------------------------------------------------------ Redirect Registry
DEFAULT_CLIENT_ID ==
  Str(<<"v", "e", "g", "v", "i", "s", "r", "-", "a", "p", "p", "-",
        "a", "u", "t", "h">>)
DEFAULT_REDIRECT ==
  Str(<<"h", "t", "t", "p", "s", ":", "/", "/", "a", "u", "t", "h", ".",
        "v", "e", "g", "v", "i", "s", "r", ".", "o", "r", "g", "/",
        "c", "a", "l", "l", "b", "a", "c", "k">>)
WorkersDevRedirect ==
  Str(<<"h", "t", "t", "p", "s", ":", "/", "/", "a", "u", "t", "h", "-",
        "w", "o", "r", "k", "e", "r", ".", "t", "o", "r", "a", "r", "n", "e",
        "h", "a", "v", "e", ".", "w", "o", "r", "k", "e", "r", "s", ".",
        "d", "e", "v", "/", "c", "a", "l", "l", "b", "a", "c", "k">>)
Slash == Str(<<"/">>)

Variants == {"index", "part_000"}

\* The own properties of the ALLOWED_CLIENTS object literal of each variant:
\* client identifier -> array of redirect URIs.
ALLOWED_CLIENTS(v) ==
  IF v = "index"
  THEN [c \in {DEFAULT_CLIENT_ID} |-> <<DEFAULT_REDIRECT>>]
  ELSE [c \in {DEFAULT_CLIENT_ID} |->
          <<DEFAULT_REDIRECT,
            DEFAULT_REDIRECT \o Slash,
            WorkersDevRedirect,
            WorkersDevRedirect \o Slash>>]

\* ALLOWED_CLIENTS is an ordinary object: a property read that finds no own
\* property goes on to Object.prototype, whose members are these.
ObjectPrototypeKeys ==
  { Str(<<"c", "o", "n", "s", "t", "r", "u", "c", "t", "o", "r">>),
    Str(<<"_", "_", "p", "r", "o", "t", "o", "_", "_">>),
    Str(<<"h", "a", "s", "O", "w", "n", "P", "r", "o", "p", "e", "r", "t", "y">>),
    Str(<<"i", "s", "P", "r", "o", "t", "o", "t", "y", "p", "e", "O", "f">>),
    Str(<<"p", "r", "o", "p", "e", "r", "t", "y", "I", "s", "E", "n", "u", "m",
          "e", "r", "a", "b", "l", "e">>),
    Str(<<"t", "o", "L", "o", "c", "a", "l", "e", "S", "t", "r", "i", "n", "g">>),
    Str(<<"t", "o", "S", "t", "r", "i", "n", "g">>),
    Str(<<"v", "a", "l", "u", "e", "O", "f">>),
    Str(<<"_", "_", "d", "e", "f", "i", "n", "e", "G", "e", "t", "t", "e", "r",
          "_", "_">>),
    Str(<<"_", "_", "d", "e", "f", "i", "n", "e", "S", "e", "t", "t", "e", "r",
          "_", "_">>),
    Str(<<"_", "_", "l", "o", "o", "k", "u", "p", "G", "e", "t", "t", "e", "r",
          "_", "_">>),
    Str(<<"_", "_", "l", "o", "o", "k", "u", "p", "S", "e", "t", "t", "e", "r",
          "_", "_">>) }

\* ALLOWED_CLIENTS[client] ?? []: an own property is its array; an inherited
\* one is a function (or Object.prototype itself), which is not nullish and
\* has no includes method; undefined becomes the empty array.
Lookup(v, client) ==
  IF client \in DOMAIN ALLOWED_CLIENTS(v)
  THEN [kind |-> "array", items |-> ALLOWED_CLIENTS(v)[client]]
  ELSE IF client \in ObjectPrototypeKeys
       THEN [kind |-> "inherited", items |-> <<>>]
       ELSE [kind |-> "array", items |-> <<>>]

\* Array.prototype.includes on strings: exact equality with some element.
Includes(items, x) == \E i \in 1..Len(items) : items[i] = x

\* ------------------------------------------------------- Admission Guard
ClientIdName == Str(<<"c", "l", "i", "e", "n", "t", "_", "i", "d">>)
RedirectUriName ==
  Str(<<"r", "e", "d", "i", "r", "e", "c", "t", "_", "u", "r", "i">>)
ResponseTypeName ==
  Str(<<"r", "e", "s", "p", "o", "n", "s", "e", "_", "t", "y", "p", "e">>)
CodeValue == Str(<<"c", "o", "d", "e">>)

\* The outcome of the /authorize block for the parsed parameters:
\* "admit" (falls through), "reject" (400) or "TypeError" (allowed.includes
\* is not a function: the handler throws).
AdmissionGuard(v, searchParams) ==
  LET client   == OrEmpty(SearchParamsGet(searchParams, ClientIdName))
      redirect == OrEmpty(SearchParamsGet(searchParams, RedirectUriName))
      allowed  == Lookup(v, client)
  IN  IF allowed.kind # "array" THEN "TypeError"
      ELSE IF ~Includes(allowed.items, redirect) THEN "reject"
      ELSE "admit"

\* ------------------------------------------------------------- responses
NoURL == <<>>
NoResponse == [kind |-> "none", status |-> 0, body |-> "", href |-> NoURL]

TextResponse(status, body) ==
  [kind |-> "text", status |-> status, body |-> body, href |-> NoURL]

\* Response.redirect(url): 302 with the Location header.
RedirectResponse(href) ==
  [kind |-> "redirect", status |-> 302, body |-> "", href |-> href]

\* The landing page: 200 text/html whose anchor points at href.
HtmlResponse(title, href) ==
  [kind |-> "html", status |-> 200, body |-> title, href |-> href]

\* What issuer(...).fetch(request, env, ctx) answers is the engine's business.
IssuerResponse == [kind |-> "issuer", status |-> 0, body |-> "", href |-> NoURL]

\* An exception leaves the handler: there is no Response.
Thrown(what) == [kind |-> "throw", status |-> 0, body |-> what, href |-> NoURL]

\* ------------------------------------------------------ Landing Presenter
AuthorizePath == Str(<<"/", "a", "u", "t", "h", "o", "r", "i", "z", "e">>)
RootPath == Str(<<"/">>)
LoginPath == Str(<<"/", "l", "o", "g", "i", "n">>)
RegisterPath == Str(<<"/", "r", "e", "g", "i", "s", "t", "e", "r">>)
CallbackPath == Str(<<"/", "c", "a", "l", "l", "b", "a", "c", "k">>)

\* part_000: a fresh URL origin + "/authorize" on which client_id,
\* redirect_uri and response_type are set, in that order; its toString().
buildAuthorizeUrl ==
  Href(AuthorizePath,
       SearchParamsSet(
         SearchParamsSet(
           SearchParamsSet(<<>>, ClientIdName, DEFAULT_CLIENT_ID),
           RedirectUriName, DEFAULT_REDIRECT),
         ResponseTypeName, CodeValue),
       <<>>)

\* The description is page copy beside the title and is left out.
renderLanding(title) == HtmlResponse(title, buildAuthorizeUrl)

\* index: on the request's own URL redirect_uri, client_id and
\* response_type are set, in that order, and the path replaced; the
\* fragment stays; serialized by url.toString().
RedirectToAuthorize(url) ==
  RedirectResponse(
    Href(AuthorizePath,
         SearchParamsSet(
           SearchParamsSet(
             SearchParamsSet(url.searchParams, RedirectUriName, DEFAULT_REDIRECT),
             ClientIdName, DEFAULT_CLIENT_ID),
           ResponseTypeName, CodeValue),
         url.hash))

\* ---------------------------------------------------------------- fetch
\* A mutation of IsCallbackPath: the path compared with a trailing slash.
IsCallbackPathSlash(pathname) == pathname = CallbackPath \o Slash

IsCallbackPath(pathname) == pathname = CallbackPath

\* A mutation of IssuerRequest: a request rebuilt from the parsed URL.
IssuerRequestRebuilt(request, url) ==
  [url |-> IF url.searchParams = <<>> THEN url.pathname
           ELSE Href(url.pathname, url.searchParams, url.hash)]

\* The request object handed to issuer(...).fetch: `request` itself.
IssuerRequest(request, url) == request

Answer(response) == [response |-> response, issuer |-> <<>>]
Delegate(request) == [response |-> IssuerResponse, issuer |-> <<request>>]

\* The landing branches of each variant, or <<>> when the path is no landing.
Landing(v, url) ==
  IF v = "index"
  THEN IF url.pathname = RootPath THEN <<RedirectToAuthorize(url)>>
       ELSE <<>>
  ELSE IF url.pathname = RootPath THEN <<renderLanding("Vegvisr Auth")>>
       ELSE IF url.pathname = LoginPath THEN <<renderLanding("Vegvisr Login")>>
       ELSE IF url.pathname = RegisterPath
       THEN <<renderLanding("Vegvisr Register")>>
       ELSE <<>>

\* The /authorize block: the guard's outcome, "admit" on any other path.
Guard(v, url) ==
  IF url.pathname = AuthorizePath THEN AdmissionGuard(v, url.searchParams)
  ELSE "admit"

\* The handler's branches in the order of the code, given the guard's
\* outcome and the landing branch's response.
Route(request, url, guard, land) ==
  IF guard = "TypeError"
  THEN Answer(Thrown("TypeError: allowed.includes is not a function"))
  ELSE IF guard = "reject"
  THEN Answer(TextResponse(400, "unauthorized client/redirect"))
  ELSE IF land # <<>> THEN Answer(land[1])
  ELSE IF IsCallbackPath(url.pathname)
  THEN Answer(TextResponse(400, "Callback is handled by your app worker"))
  ELSE Delegate(IssuerRequest(request, url))

\* The handler once `url` is parsed.
Serve(v, request, url) == Route(request, url, Guard(v, url), Landing(v, url))

\* The synchronous part of the handler: the response it returns itself, or
\* the request it hands to the Issuer Delegate.
fetch(v, request) == Serve(v, request, NewURL(request))

\* ------------------------------------------------------ Identity Resolver
Emails == {"alice@example.com", "bob@example.com"}

\* The identifier the user table gives a new row (its column default).
NewId(table) == Cardinality(table) + 1

\* A mutation of UpsertReturning: a plain INSERT ... RETURNING id, with no
\* ON CONFLICT clause to fall back on the existing row.
InsertReturning(table, email) ==
  LET new == [id |-> NewId(table), email |-> email]
  IN  [table |-> table \cup {new}, id |-> new.id]

\* A mutation of UpsertReturning: INSERT OR REPLACE, which deletes the row
\* in conflict and inserts a new one under a new id.
ReplaceReturning(table, email) ==
  LET kept == {row \in table : row.email # email}
      used == {row.id : row \in table}
      new  == [id |-> (CHOOSE k \in 1..(Cardinality(table) + 1) : k \notin used),
               email |-> email]
  IN  [table |-> kept \cup {new}, id |-> new.id]

\* INSERT INTO user (email) VALUES (?) ON CONFLICT (email) DO UPDATE SET
\* email = email RETURNING id: one atomic statement. A row with this email
\* is left as it is and its id returned; otherwise a row is inserted.
UpsertReturning(table, email) ==
  LET existing == {row \in table : row.email = email}
      new      == [id |-> NewId(table), email |-> email]
  IN  IF existing # {}
      THEN [table |-> table, id |-> (CHOOSE row \in existing : TRUE).id]
      ELSE [table |-> table \cup {new}, id |-> new.id]

\* What .first() settles with: a row, null, or a rejection (the call was
\* aborted or timed out, the write committed or not).
RowResult(id) == [kind |-> "row", id |-> id, committed |-> TRUE]
NullResult == [kind |-> "null", id |-> 0, committed |-> FALSE]
AbortResult(committed) == [kind |-> "abort", id |-> 0, committed |-> committed]
NoResult == [kind |-> "none", id |-> 0, committed |-> FALSE]

\* A mutation of getOrCreateUser: the `if (!result)` check left out.
getOrCreateUserUnchecked(result) ==
  IF result.kind = "abort" THEN [kind |-> "throw", id |-> 0]
  ELSE [kind |-> "return", id |-> result.id]

\* A mutation of getOrCreateUser: a storage failure caught and answered
\* with an empty identifier.
getOrCreateUserSwallow(result) ==
  IF result.kind = "null" THEN [kind |-> "throw", id |-> 0]
  ELSE [kind |-> "return", id |-> result.id]

\* getOrCreateUser after its await: a rejected storage call propagates, a
\* null result throws "Unable to process user", a row's id is returned.
getOrCreateUser(result) ==
  IF result.kind = "abort" THEN [kind |-> "throw", id |-> 0]
  ELSE IF result.kind = "null" THEN [kind |-> "throw", id |-> 0]
  ELSE [kind |-> "return", id |-> result.id]

\* A mutation of success: the hook resolves an address of its own choosing.
successFixedEmail(value) == "alice@example.com"

\* The success hook's argument to getOrCreateUser: value.email.
success(value) == value.email

\* ------------------------------------------------------------------ state
VARIABLES
  variant,      \* which of the two source files is deployed
  n,            \* requests handled so far; request i is the i-th
  last,         \* the latest request, its URL as the handler parsed it,
                \* the handler's answer, the request handed to the issuer
                \* (<<>> if none)
  flows,        \* per request: how far the engine, the resolver and the
                \* hook have got, the email proved, the email resolved,
                \* what first() settled with, what getOrCreateUser
                \* returned, the subject, and (for a call in flight or one
                \* that got a row) whether the table had no row for that
                \* email when getOrCreateUser was called
  users,        \* the user table (env.AUTH_DB)
  issuerCalls,  \* requests for which issuer(...).fetch was invoked
  kvAccess,     \* requests on whose behalf env.AUTH_STORAGE was used
  dbAccess,     \* requests on whose behalf env.AUTH_DB was used
  authorizeDelegated  \* an /authorize request has reached the issuer

vars == <<variant, n, last, flows, users, issuerCalls, kvAccess, dbAccess,
          authorizeDelegated>>

Slots == 1..MaxRequests

NoFlow ==
  [pc |-> "none", proved |-> "", email |-> "", fresh |-> FALSE,
   result |-> NoResult, userId |-> <<>>, subject |-> <<>>]

\* ------------------------------------------------------- inbound requests
UnknownClient ==
  Str(<<"u", "n", "k", "n", "o", "w", "n">>)
ConstructorClient ==
  Str(<<"c", "o", "n", "s", "t", "r", "u", "c", "t", "o", "r">>)
ClientValues == {DEFAULT_CLIENT_ID, UnknownClient, ConstructorClient, <<>>}

EvilRedirect ==
  Str(<<"h", "t", "t", "p", "s", ":", "/", "/", "e", "v", "i", "l", ".",
        "e", "x", "a", "m", "p", "l", "e", "/", "c", "b">>)

RedirectValues == {DEFAULT_REDIRECT, DEFAULT_REDIRECT \o Slash, EvilRedirect}

StateName ==
  Str(<<"s", "t", "a", "t", "e">>)
LoginHintName ==
  Str(<<"l", "o", "g", "i", "n", "_", "h", "i", "n", "t">>)

\* Values with characters every layer treats differently: a space, "&" and
\* "=", and "@", "~" and a non-ASCII letter (U+00E9).
StateValue ==
  Str(<<"a", " ", "b", "&", "c", "=", "d">>)
LoginHintValue == <<Code("a"), Code("@"), 233, Code("~")>>

ParamPairs ==
  {<<ClientIdName, c>> : c \in ClientValues}
    \cup {<<RedirectUriName, r>> : r \in RedirectValues}
    \cup {<<StateName, StateValue>>, <<LoginHintName, LoginHintValue>>}

ParamLists == UNION {[1..k -> ParamPairs] : k \in 0..MaxParams}

\* Query strings as a client may also write them: reserved characters left
\* unescaped; empty pieces; names with no "="; a reserved toString client;
\* lower-case escapes and an escaped "-"; a fragment after the query; an
\* escape cut short; a tab inside a value; a byte that is not UTF-8.
RawSearches ==
  {
    Str(<<"c", "l", "i", "e", "n", "t", "_", "i", "d", "=", "v", "e", "g",
          "v", "i", "s", "r", "-", "a", "p", "p", "-", "a", "u", "t", "h",
          "&", "r", "e", "d", "i", "r", "e", "c", "t", "_", "u", "r", "i",
          "=", "h", "t", "t", "p", "s", ":", "/", "/", "a", "u", "t", "h",
          ".", "v", "e", "g", "v", "i", "s", "r", ".", "o", "r", "g", "/",
          "c", "a", "l", "l", "b", "a", "c", "k">>),
    Str(<<"&", "&", "r", "e", "d", "i", "r", "e", "c", "t", "_", "u", "r",
          "i", "=", "h", "t", "t", "p", "s", ":", "/", "/", "a", "u", "t",
          "h", ".", "v", "e", "g", "v", "i", "s", "r", ".", "o", "r", "g",
          "/", "c", "a", "l", "l", "b", "a", "c", "k", "&", "c", "l", "i",
          "e", "n", "t", "_", "i", "d", "=", "v", "e", "g", "v", "i", "s",
          "r", "-", "a", "p", "p", "-", "a", "u", "t", "h", "&">>),
    Str(<<"c", "l", "i", "e", "n", "t", "_", "i", "d", "&", "r", "e", "d",
          "i", "r", "e", "c", "t", "_", "u", "r", "i">>),
    Str(<<"c", "l", "i", "e", "n", "t", "_", "i", "d", "=", "t", "o", "S",
          "t", "r", "i", "n", "g", "&", "r", "e", "d", "i", "r", "e", "c",
          "t", "_", "u", "r", "i", "=", "x">>),
    Str(<<"c", "l", "i", "e", "n", "t", "_", "i", "d", "=", "v", "e", "g",
          "v", "i", "s", "r", "%", "2", "D", "a", "p", "p", "%", "2", "D",
          "a", "u", "t", "h", "&", "r", "e", "d", "i", "r", "e", "c", "t",
          "_", "u", "r", "i", "=", "h", "t", "t", "p", "s", "%", "3", "a",
          "%", "2", "f", "%", "2", "f", "a", "u", "t", "h", ".", "v", "e",
          "g", "v", "i", "s", "r", ".", "o", "r", "g", "%", "2", "f", "c",
          "a", "l", "l", "b", "a", "c", "k">>),
    Str(<<"c", "l", "i", "e", "n", "t", "_", "i", "d", "=", "v", "e", "g",
          "v", "i", "s", "r", "-", "a", "p", "p", "-", "a", "u", "t", "h",
          "&", "r", "e", "d", "i", "r", "e", "c", "t", "_", "u", "r", "i",
          "=", "h", "t", "t", "p", "s", ":", "/", "/", "a", "u", "t", "h",
          ".", "v", "e", "g", "v", "i", "s", "r", ".", "o", "r", "g", "/",
          "c", "a", "l", "l", "b", "a", "c", "k", "#", "s", "t", "a", "t",
          "e", "=", "x", " ", "y">>),
    Str(<<"c", "l", "i", "e", "n", "t", "_", "i", "d", "=", "v", "e", "g",
          "v", "i", "s", "r", "-", "a", "p", "p", "-", "a", "u", "t", "h",
          "&", "r", "e", "d", "i", "r", "e", "c", "t", "_", "u", "r", "i",
          "=", "h", "t", "t", "p", "s", ":", "/", "/", "a", "u", "t", "h",
          ".", "v", "e", "g", "v", "i", "s", "r", ".", "o", "r", "g", "/",
          "c", "a", "l", "l", "b", "a", "c", "k", "%", "2">>),
    Str(<<"c", "l", "i", "e", "n", "t", "_", "i", "d", "=", "v", "e", "g",
          "v", "i", "s", "r", "-", "a", "p", "p", "-", "a", "u", "t", "h",
          "&", "r", "e", "d", "i", "r", "e", "c", "t", "_", "u", "r", "i",
          "=", "h", "t", "t", "p", "s", ":", "/", "/", "a", "u", "t", "h",
          ".", "v", "e", "g", "v", "i", "s", "r", ".", "o", "r", "g", "/",
          "c", "a", "l", "l">>)
      \o <<9>> \o
    Str(<<"b", "a", "c", "k">>),
    Str(<<"%", "F", "F", "=", "%", "e", "9", "&", "c", "l", "i", "e", "n",
          "t", "_", "i", "d", "=", "%", "C", "3", "%", "A", "9">>) }

\* Paths as a client may write them: the handler's own, a provider path, a
\* trailing slash, dot segments plain, escaped and behind a backslash, an
\* escaped letter, characters in and out of the path escape set, and no path
\* at all.
Paths ==
  { AuthorizePath, RootPath, LoginPath, RegisterPath, CallbackPath,
    Str(<<"/", "p", "a", "s", "s", "w", "o", "r", "d", "/", "a", "u", "t",
          "h", "o", "r", "i", "z", "e">>),
    Str(<<"/", "a", "u", "t", "h", "o", "r", "i", "z", "e", "/">>),
    Str(<<"/", "x", "/", ".", ".", "/", "a", "u", "t", "h", "o", "r", "i",
          "z", "e">>),
    Str(<<"/", ".", "/", "c", "a", "l", "l", "b", "a", "c", "k">>),
    Str(<<"/", "l", "o", "g", "i", "n", "/", "%", "2", "E", "%", "2", "e",
          "/", "r", "e", "g", "i", "s", "t", "e", "r">>),
    Str(<<"/", "x", "\\", ".", ".", "\\", "a", "u", "t", "h", "o", "r",
          "i", "z", "e">>),
    Str(<<"/", "%", "6", "1", "u", "t", "h", "o", "r", "i", "z", "e">>),
    Str(<<"/", "^", "{", "}", "|", "grave accent">>),
    <<>> }

\* <<>> for a URL with no "?", else the query in a one-element sequence.
Searches ==
  {<<>>} \cup {<<SerializeParams(l)>> : l \in ParamLists}
         \cup {<<s>> : s \in RawSearches}

RequestOf(path, search) ==
  [url |-> path \o (IF search = <<>> THEN <<>> ELSE <<ChQuestion>> \o search[1])]

Requests == {RequestOf(p, s) : p \in Paths, s \in Searches}

AuthorizeRequest(client, redirect) ==
  RequestOf(AuthorizePath,
            <<SerializeParams(<< <<ClientIdName, client>>,
                                 <<RedirectUriName, redirect>> >>)>>)

\* The requests of the flow specification: an admitted and a rejected
\* authorization request and a provider path.
FlowRequests ==
  { AuthorizeRequest(DEFAULT_CLIENT_ID, DEFAULT_REDIRECT),
    AuthorizeRequest(UnknownClient, DEFAULT_REDIRECT),
    RequestOf(
    Str(<<"/", "p", "a", "s", "s", "w", "o", "r", "d", "/", "a", "u", "t",
          "h", "o", "r", "i", "z", "e">>), <<>>) }

\* fetch(v, r) together with the handler's `url`.
WithURL(v, r, url) == [out |-> Serve(v, r, url), url |-> url]
Outcome(v, r) == WithURL(v, r, NewURL(r))

\* The handler's outcome on each flow request, worked out once.
FlowOutcomes ==
  {<<v, r, Outcome(v, r)>> : v \in Variants, r \in FlowRequests}

Handle(v, r) ==
  IF r \in FlowRequests
  THEN (CHOOSE t \in FlowOutcomes : t[1] = v /\ t[2] = r)[3]
  ELSE Outcome(v, r)

\* ---------------------------------------------------------------- actions
Init ==
  /\ variant \in Variants
  /\ n = 0
  /\ last = [request |-> [url |-> <<>>],
             url |-> [pathname |-> <<>>, searchParams |-> <<>>, hash |-> <<>>],
             response |-> NoResponse, issuer |-> <<>>]
  /\ flows = [i \in Slots |-> NoFlow]
  /\ users = {}
  /\ issuerCalls = {}
  /\ kvAccess = {}
  /\ dbAccess = {}
  /\ authorizeDelegated = FALSE

\* Request r, the i-th, is handled as `handled` says: answered by the
\* handler itself, or given to issuer(...).fetch, which starts the engine
\* on it.
Handled(r, i, handled) ==
  /\ n' = i
  /\ last' = [request |-> r, url |-> handled.url,
              response |-> handled.out.response, issuer |-> handled.out.issuer]
  /\ IF handled.out.issuer # <<>>
     THEN /\ flows' = [flows EXCEPT ![i].pc = "engine"]
          /\ issuerCalls' = issuerCalls \cup {i}
          /\ authorizeDelegated' =
               (authorizeDelegated \/ handled.url.pathname = AuthorizePath)
     ELSE /\ flows' = [flows EXCEPT ![i].pc = "answered"]
          /\ UNCHANGED <<issuerCalls, authorizeDelegated>>

\* The worker's fetch handler takes request r, the (n+1)-th.
Fetch(r) ==
  /\ n < MaxRequests
  /\ Handled(r, n + 1, Handle(variant, r))
  /\ UNCHANGED <<variant, users, kvAccess, dbAccess>>

\* The engine, working on delegated request i with its key-value state,
\* confirms the credential proof for email e and calls the success hook,
\* which calls getOrCreateUser: the statement is bound and first() awaited.
EngineConfirm(i, e) ==
  /\ flows[i].pc = "engine"
  /\ LET email == success([email |-> e])
     IN  flows' = [flows EXCEPT ![i].pc = "hook", ![i].proved = e,
                     ![i].email = email,
                     ![i].fresh = (\A row \in users : row.email # email)]
  /\ kvAccess' = kvAccess \cup {i}
  /\ dbAccess' = dbAccess \cup {i}
  /\ UNCHANGED <<variant, n, last, users, issuerCalls, authorizeDelegated>>

\* The store runs the statement of request i atomically and first()
\* settles: with the row, with null, or with a rejection that leaves the
\* write undone or done.
D1First(i) ==
  /\ flows[i].pc = "hook"
  /\ LET up == UpsertReturning(users, flows[i].email)
     IN  \/ /\ users' = up.table
            /\ flows' = [flows EXCEPT ![i].pc = "settled",
                                      ![i].result = RowResult(up.id)]
         \/ /\ users' = users
            /\ flows' = [flows EXCEPT ![i].pc = "settled", ![i].fresh = FALSE,
                                      ![i].result = NullResult]
         \/ /\ users' = users
            /\ flows' = [flows EXCEPT ![i].pc = "settled", ![i].fresh = FALSE,
                                      ![i].result = AbortResult(FALSE)]
         \/ /\ users' = up.table
            /\ flows' = [flows EXCEPT ![i].pc = "settled", ![i].fresh = FALSE,
                                      ![i].result = AbortResult(TRUE)]
  /\ UNCHANGED <<variant, n, last, issuerCalls, kvAccess, dbAccess,
                 authorizeDelegated>>

\* getOrCreateUser of request i resumes after `await ... .first()`: it
\* returns the row's id to the hook, or throws.
ResolverResume(i) ==
  /\ flows[i].pc = "settled"
  /\ LET out == getOrCreateUser(flows[i].result)
     IN  IF out.kind = "return"
         THEN flows' = [flows EXCEPT ![i].pc = "returned",
                                     ![i].userId = <<out.id>>]
         ELSE flows' = [flows EXCEPT ![i].pc = "threw"]
  /\ UNCHANGED <<variant, n, last, users, issuerCalls, kvAccess, dbAccess,
                 authorizeDelegated>>

\* The success hook of request i resumes after `await getOrCreateUser(...)`:
\* with an id it returns ctx.subject("user", {id}); with the exception it
\* fails.
HookResume(i) ==
  /\ flows[i].pc \in {"returned", "threw"}
  /\ IF flows[i].pc = "returned"
     THEN flows' = [flows EXCEPT ![i].pc = "subject",
                      ![i].subject = <<[type |-> "user", id |-> flows[i].userId[1]]>>]
     ELSE flows' = [flows EXCEPT ![i].pc = "failed"]
  /\ UNCHANGED <<variant, n, last, users, issuerCalls, kvAccess, dbAccess,
                 authorizeDelegated>>

Next ==
  \/ \E r \in FlowRequests : Fetch(r)
  \/ \E i \in Slots, e \in Emails : EngineConfirm(i, e)
  \/ \E i \in Slots : D1First(i)
  \/ \E i \in Slots : ResolverResume(i)
  \/ \E i \in Slots : HookResume(i)

Spec == Init /\ [][Next]_vars

\* One invocation of the handler on any request of the input domain, and
\* the engine's work on it.
NextGuard ==
  \/ n = 0 /\ \E r \in Requests : Fetch(r)
  \/ \E i \in Slots, e \in Emails : EngineConfirm(i, e)
  \/ \E i \in Slots : D1First(i)
  \/ \E i \in Slots : ResolverResume(i)
  \/ \E i \in Slots : HookResume(i)

SpecGuard == Init /\ [][NextGuard]_vars

\* =================================================================== claims
\* What the claims read off the latest request, as the handler parsed it.
LastURL == last.url
LastParams == LastURL.searchParams
LastClient == OrEmpty(SearchParamsGet(LastParams, ClientIdName))
LastRedirect == OrEmpty(SearchParamsGet(LastParams, RedirectUriName))

\* The registry's allow-list for a client: the set of its registered redirect
\* URIs, empty for a client that is not configured.
AllowList(v, client) ==
  IF client \in DOMAIN ALLOWED_CLIENTS(v)
  THEN {ALLOWED_CLIENTS(v)[client][k] : k \in 1..Len(ALLOWED_CLIENTS(v)[client])}
  ELSE {}

Rejection == TextResponse(400, "unauthorized client/redirect")

\* No issuer call and no storage access was made for request i.
Untouched(i) ==
  /\ i \notin issuerCalls
  /\ i \notin kvAccess
  /\ i \notin dbAccess
  /\ flows[i].pc \in {"none", "answered"}

\* C1: every /authorize request whose (client_id, redirect_uri) pair is not
\* in the allow-list of its client (absent parameters being "") is answered
\* 400 "unauthorized client/redirect", and for it the issuer is never invoked
\* and neither store is touched.  (SpecGuard)
C1_RejectedWith400 ==
  (n = 1 /\ LastURL.pathname = AuthorizePath
         /\ LastRedirect \notin AllowList(variant, LastClient))
    => /\ last.response = Rejection
       /\ last.issuer = <<>>
       /\ Untouched(1)
       /\ users = {}

\* C2: every /authorize request whose redirect_uri is, by exact equality, in
\* the allow-list registered for its client_id is admitted, and the issuer
\* is handed the original request, every parameter unchanged.  (SpecGuard)
C2_AdmittedUnchanged ==
  (n = 1 /\ LastURL.pathname = AuthorizePath
         /\ LastRedirect \in AllowList(variant, LastClient))
    => /\ last.response.kind = "issuer"
       /\ last.issuer = <<last.request>>
       /\ 1 \in issuerCalls

\* C2 witness: an admitted request whose URL is not in the serializer's
\* form (reserved characters unescaped, lower-case escapes, dot segments)
\* has reached the issuer.
C2_Witness ==
  /\ n = 1
  /\ LastURL.pathname = AuthorizePath
  /\ LastRedirect \in AllowList(variant, LastClient)
  /\ last.request.url # Href(LastURL.pathname, LastParams, LastURL.hash)
  /\ last.issuer # <<>>

\* The landing paths of each variant.
LandingPaths(v) ==
  IF v = "index" THEN {RootPath} ELSE {RootPath, LoginPath, RegisterPath}

\* The landing response's authorization URL, as a request.
LandingTarget == [url |-> last.response.href]

\* C5: for every request to a landing path, whatever its query parameters,
\* the authorization URL the presenter builds has path /authorize and, fed
\* back into the same variant's handler, is admitted (handed to the issuer),
\* never answered 400.  (SpecGuard)
C5_LandingUrlAdmitted ==
  (n = 1 /\ LastURL.pathname \in LandingPaths(variant))
    => /\ last.response.kind \in {"redirect", "html"}
       /\ last.issuer = <<>>
       /\ NewURL(LandingTarget).pathname = AuthorizePath
       /\ AdmissionGuard(variant, NewURL(LandingTarget).searchParams) = "admit"
       /\ fetch(variant, LandingTarget).issuer = <<LandingTarget>>

\* C5 witness: the redirecting variant has answered a landing request that
\* itself carried a client_id and a redirect_uri the guard would reject.
C5_Witness ==
  /\ n = 1
  /\ variant = "index"
  /\ LastURL.pathname = RootPath
  /\ LastClient = UnknownClient
  /\ LastRedirect = EvilRedirect
  /\ last.response.kind = "redirect"

\* C6: the registry lookup is total: for every client_id it yields an array
\* (empty for a client that is not configured) and never a fault, so every
\* /authorize request with an unknown client_id ends in the 400 rejection.
\* (SpecGuard)
C6_LookupTotal ==
  (n = 1 /\ LastURL.pathname = AuthorizePath)
    => /\ Lookup(variant, LastClient).kind = "array"
       /\ LastClient \notin DOMAIN ALLOWED_CLIENTS(variant)
            => /\ Lookup(variant, LastClient).items = <<>>
               /\ last.response = Rejection

\* C8: every /callback request, whatever its query, is answered 400
\* "Callback is handled by your app worker", is never handed to the issuer
\* and causes no storage access.  (SpecGuard)
C8_CallbackRefused ==
  (n = 1 /\ LastURL.pathname = CallbackPath)
    => /\ last.response = TextResponse(400, "Callback is handled by your app worker")
       /\ last.issuer = <<>>
       /\ Untouched(1)
       /\ users = {}

\* C8 witness: a /callback request carrying query parameters was answered.
C8_Witness ==
  /\ n = 1
  /\ LastURL.pathname = CallbackPath
  /\ LastParams # <<>>
  /\ last.response.status = 400

\* ------------------------------------------------- Identity Resolver claims
Started == {"hook", "settled", "returned", "threw", "subject", "failed"}

RowsOf(e) == {row \in users : row.email = e}

\* Request i's hook has returned a subject.
Returned(i) == flows[i].pc = "subject"

\* C3: concurrent first-time calls of getOrCreateUser for one email (each
\* called while the table held no row for it), in any interleaving, create
\* exactly one row, and all those that return give the same identifier.
C3_ConcurrentFirstCalls ==
  /\ \A e \in Emails : Cardinality(RowsOf(e)) <= 1
  /\ \A i, j \in Slots :
       (/\ flows[i].userId # <<>> /\ flows[j].userId # <<>>
        /\ flows[i].fresh /\ flows[j].fresh
        /\ flows[i].email = flows[j].email)
         => /\ flows[i].userId = flows[j].userId
            /\ Cardinality(RowsOf(flows[i].email)) = 1

\* C3 witness: two calls for one email, both made while the table had no row
\* for it, have both returned, and both hooks have their subject.
C3_Witness ==
  \E i, j \in Slots :
    /\ i # j
    /\ Returned(i) /\ Returned(j)
    /\ flows[i].fresh /\ flows[j].fresh
    /\ flows[i].email = flows[j].email

\* C4 (state part): two calls with the same email return the same
\* identifier, and the table holds exactly one row for each email a call
\* resolved, carrying the identifier returned.
C4_OneRowPerEmail ==
  /\ \A i, j \in Slots :
       (/\ flows[i].userId # <<>> /\ flows[j].userId # <<>>
        /\ flows[i].email = flows[j].email)
         => flows[i].userId = flows[j].userId
  /\ \A i \in Slots :
       flows[i].userId # <<>> =>
         RowsOf(flows[i].email) =
           {[id |-> flows[i].userId[1], email |-> flows[i].email]}

\* C4: the Identity Resolver is idempotent (C4_OneRowPerEmail in every
\* state), and no step changes or removes a row: an id, once assigned, stays.
C4_Idempotent ==
  /\ [](C4_OneRowPerEmail)
  /\ [][\A row \in users : row \in users']_vars

\* C4 witness: a second call for an email that already had its row has
\* returned its subject, as has the first.
C4_Witness ==
  \E i, j \in Slots :
    /\ i # j
    /\ Returned(i) /\ Returned(j)
    /\ flows[i].email = flows[j].email
    /\ ~flows[j].fresh
    /\ flows[i].subject = flows[j].subject

\* C7: when first() yields no row or the storage call fails, getOrCreateUser
\* throws, the success hook fails with it and no subject exists for that
\* request: an error of identity resolution never becomes a subject.
C7_NoSubjectOnError ==
  \A i \in Slots :
    /\ flows[i].result.kind \in {"null", "abort"}
         => /\ flows[i].pc \in {"settled", "threw", "failed"}
            /\ flows[i].userId = <<>>
            /\ flows[i].subject = <<>>
    /\ flows[i].subject # <<>> => flows[i].result.kind = "row"
    /\ flows[i].pc \in {"threw", "failed"} => flows[i].subject = <<>>

\* C7 witness: a hook whose statement returned no row has failed.
C7_Witness ==
  \E i \in Slots : flows[i].result.kind = "null" /\ flows[i].pc = "failed"

\* C9 as claimed: a row exists or a subject was produced for an email only
\* after an admitted /authorize request was delegated to the issuer and the
\* engine confirmed the credential proof for that email.
C9_OnlyAfterAdmittedAuthorize ==
  /\ \A row \in users :
       /\ authorizeDelegated
       /\ \E i \in Slots : flows[i].pc \in Started /\ flows[i].proved = row.email
  /\ \A i \in Slots :
       flows[i].subject # <<>> =>
         authorizeDelegated /\ flows[i].proved = flows[i].email

\* C9 amended: the Identity Resolver runs only from the success hook of a
\* request that was delegated to the issuer, after the engine confirmed the
\* credential proof: every row and every subject is for an email the engine
\* proved on a delegated request, and no request the handler answered itself
\* touches the user table.
C9_OnlyAfterProof ==
  /\ dbAccess \subseteq issuerCalls
  /\ \A row \in users :
       \E i \in issuerCalls : flows[i].pc \in Started /\ flows[i].proved = row.email
  /\ \A i \in Slots :
       /\ flows[i].pc \in Started => i \in issuerCalls /\ flows[i].proved = flows[i].email
       /\ flows[i].subject # <<>> =>
            /\ i \in issuerCalls
            /\ flows[i].subject[1].type = "user"
            /\ [id |-> flows[i].subject[1].id, email |-> flows[i].proved] \in users
       /\ flows[i].pc = "answered" => i \notin dbAccess

\* C9 witness: a subject was produced on a request that reached the issuer
\* on a path other than /authorize, no /authorize request having been
\* delegated.
C9_Witness ==
  \E i \in Slots :
    /\ flows[i].subject # <<>>
    /\ ~authorizeDelegated
    /\ \E j \in Slots : flows[j].pc = "answered"

\* C10: a request whose storage call was aborted or timed out, the write
\* committed or not, gets no subject; and a call for the same email that
\* returns gives the identifier of the one row of that email: no second row.
C10_AbortFailsClosed ==
  /\ \A i \in Slots :
       flows[i].result.kind = "abort" =>
         /\ flows[i].userId = <<>>
         /\ flows[i].subject = <<>>
         /\ flows[i].pc \notin {"returned", "subject"}
  /\ \A i, j \in Slots :
       (flows[i].result.kind = "abort" /\ flows[j].userId # <<>>
          /\ flows[j].email = flows[i].email)
         => /\ Cardinality(RowsOf(flows[i].email)) = 1
            /\ \A row \in RowsOf(flows[i].email) : row.id = flows[j].userId[1]

\* C10 witness: a call was aborted after its write had committed and its
\* hook has failed, and a retry for the same email, made when the row
\* existed, has returned its subject.
C10_Witness ==
  \E i, j \in Slots :
    /\ flows[i].result = AbortResult(TRUE)
    /\ flows[i].pc = "failed"
    /\ Returned(j)
    /\ flows[j].email = flows[i].email
    /\ ~flows[j].fresh

====
